---- MODULE Spec2Model ----
(***************************************************************************)
(* A model of the Lox front end of src/src/main.rs: the printing scanner   *)
(* (tokenize), the collecting scanner used by the parser                   *)
(* (scan_raw_tokens), the token conversion, the recursive-descent parser   *)
(* and the AST printer.                                                    *)
(*                                                                         *)
(* Text is a sequence of one-character strings.  Each iteration of a       *)
(* scanner's outer `while let Some(ch) = chars.next()` loop is one step;   *)
(* the inner peek loops are recursive operators.  Each call of             *)
(* Parser::primary is one step, the call stack of pending groupings is     *)
(* explicit.                                                               *)
(***************************************************************************)
EXTENDS Integers, Sequences, FiniteSets, TLC

VARIABLES
    source,      \* the file contents handed to tokenize / parse
    command,     \* args[1]: "tokenize" or "parse"
    pc,          \* position in the pipeline
    chars,       \* the unread rest of the peekable character iterator
    line,        \* the running scanner's line counter
    had_error,   \* tokenize's local had_error
    stdout,      \* println! records, oldest first
    stderr,      \* eprintln! records, oldest first
    raw_tokens,  \* scan_raw_tokens' Vec<RawToken>
    parser,      \* the Parser struct: tokens, current, had_error
    stack,       \* pending calls of primary suspended in the '(' arm
    calls,       \* number of calls of primary so far
    expr,        \* value returned by the call of primary that last returned
    ast,         \* Option<Expr> returned by Parser::parse
    returned     \* Option<bool> returned to main by tokenize / parse

vars == <<source, command, pc, chars, line, had_error, stdout, stderr,
          raw_tokens, parser, stack, calls, expr, ast, returned>>

(***************************************************************************)
(* Bounds of the model.                                                    *)
(***************************************************************************)
MaxFragments == 3

(***************************************************************************)
(* Option<T>: None is the empty sequence, Some(x) the one-element one.     *)
(***************************************************************************)
None == <<>>
Some(x) == <<x>>

(***************************************************************************)
(* Character classes.                                                      *)
(***************************************************************************)
Digits == {"0", "1", "2", "3", "4", "5", "6", "7", "8", "9"}

Lower == {"a", "b", "c", "d", "e", "f", "g", "h", "i", "j", "k", "l", "m",
          "n", "o", "p", "q", "r", "s", "t", "u", "v", "w", "x", "y", "z"}

Upper == {"A", "B", "C", "D", "E", "F", "G", "H", "I", "J", "K", "L", "M",
          "N", "O", "P", "Q", "R", "S", "T", "U", "V", "W", "X", "Y", "Z"}

is_ascii_digit(c) == c \in Digits

\* char::is_alphanumeric, restricted to the ASCII letters and digits
is_alphanumeric(c) == c \in Lower \cup Upper \cup Digits

IdentStart == Lower \cup Upper \cup {"_"}

null == <<"n", "u", "l", "l">>

\* the one-character punctuation arms of tokenize's match
Punctuation ==
    [c \in {"(", ")", "{", "}", "*", ".", "+", ",", "-", ";"} |->
        CASE c = "(" -> "LEFT_PAREN"
          [] c = ")" -> "RIGHT_PAREN"
          [] c = "{" -> "LEFT_BRACE"
          [] c = "}" -> "RIGHT_BRACE"
          [] c = "*" -> "STAR"
          [] c = "." -> "DOT"
          [] c = "+" -> "PLUS"
          [] c = "," -> "COMMA"
          [] c = "-" -> "MINUS"
          [] c = ";" -> "SEMICOLON"]

\* the arms of tokenize that combine with a following '='
Comparison ==
    [c \in {"<", ">", "!", "="} |->
        CASE c = "<" -> <<"LESS", "LESS_EQUAL">>
          [] c = ">" -> <<"GREATER", "GREATER_EQUAL">>
          [] c = "!" -> <<"BANG", "BANG_EQUAL">>
          [] c = "=" -> <<"EQUAL", "EQUAL_EQUAL">>]

\* tokenize's keyword table
keywords ==
    (<<"a", "n", "d">> :> "AND") @@
    (<<"c", "l", "a", "s", "s">> :> "CLASS") @@
    (<<"e", "l", "s", "e">> :> "ELSE") @@
    (<<"f", "a", "l", "s", "e">> :> "FALSE") @@
    (<<"f", "o", "r">> :> "FOR") @@
    (<<"f", "u", "n">> :> "FUN") @@
    (<<"i", "f">> :> "IF") @@
    (<<"n", "i", "l">> :> "NIL") @@
    (<<"o", "r">> :> "OR") @@
    (<<"p", "r", "i", "n", "t">> :> "PRINT") @@
    (<<"r", "e", "t", "u", "r", "n">> :> "RETURN") @@
    (<<"s", "u", "p", "e", "r">> :> "SUPER") @@
    (<<"t", "h", "i", "s">> :> "THIS") @@
    (<<"t", "r", "u", "e">> :> "TRUE") @@
    (<<"v", "a", "r">> :> "VAR") @@
    (<<"w", "h", "i", "l", "e">> :> "WHILE")

(***************************************************************************)
(* f64 values of numeric literals.  A value is kept as its exact decimal   *)
(* expansion: the integer digits without leading zeros and the fraction    *)
(* digits without trailing zeros.  For literals of fewer than 16           *)
(* significant digits this identifies exactly the literals that parse to   *)
(* the same f64, and Rust's shortest round-trip Display prints that        *)
(* expansion.                                                              *)
(***************************************************************************)
RECURSIVE StripLeadingZeros(_)
StripLeadingZeros(ds) ==
    IF Len(ds) > 1 /\ Head(ds) = "0" THEN StripLeadingZeros(Tail(ds)) ELSE ds

RECURSIVE StripTrailingZeros(_)
StripTrailingZeros(ds) ==
    IF ds # <<>> /\ ds[Len(ds)] = "0"
    THEN StripTrailingZeros(SubSeq(ds, 1, Len(ds) - 1))
    ELSE ds

\* index of the first '.' of a text, 0 when there is none
RECURSIVE DotIndex(_, _)
DotIndex(s, i) ==
    IF i > Len(s) THEN 0
    ELSE IF s[i] = "." THEN i
    ELSE DotIndex(s, i + 1)

\* str::parse::<f64> on a text of digits with at most one '.'
parse_f64(text) ==
    LET d == DotIndex(text, 1)
        ip == IF d = 0 THEN text ELSE SubSeq(text, 1, d - 1)
        fp == IF d = 0 THEN <<>> ELSE SubSeq(text, d + 1, Len(text))
    IN [int |-> StripLeadingZeros(IF ip = <<>> THEN <<"0">> ELSE ip),
        frac |-> StripTrailingZeros(fp)]

format_float_value(value) ==
    IF value.frac = <<>>
    THEN value.int \o <<".", "0">>
    ELSE value.int \o <<".">> \o value.frac

(***************************************************************************)
(* The inner peek loops shared in shape by both scanners.  Each takes the  *)
(* text collected so far and the unread rest and returns both.             *)
(***************************************************************************)
\* `//` comment body: skip to, not past, the next newline
RECURSIVE skip_comment(_)
skip_comment(rest) ==
    IF rest = <<>> \/ Head(rest) = "\n" THEN rest
    ELSE skip_comment(Tail(rest))

RECURSIVE scan_number(_, _, _)
scan_number(number, rest, is_float) ==
    IF rest = <<>> THEN [text |-> number, rest |-> rest, is_float |-> is_float]
    ELSE IF is_ascii_digit(Head(rest))
         THEN scan_number(Append(number, Head(rest)), Tail(rest), is_float)
    ELSE IF Head(rest) = "." /\ ~is_float
         THEN scan_number(Append(number, Head(rest)), Tail(rest), TRUE)
    ELSE [text |-> number, rest |-> rest, is_float |-> is_float]

RECURSIVE scan_identifier(_, _)
scan_identifier(identifier, rest) ==
    IF rest # <<>> /\ (is_alphanumeric(Head(rest)) \/ Head(rest) = "_")
    THEN scan_identifier(Append(identifier, Head(rest)), Tail(rest))
    ELSE [text |-> identifier, rest |-> rest]

(***************************************************************************)
(* tokenize (lines 58-246).  A scanner state is the record                 *)
(* [chars, line, had_error, stdout, stderr].                               *)
(***************************************************************************)
\* println!("{} {} {}", type, lexeme, literal)
TokenLine(type, lexeme, literal) ==
    [type |-> type, lexeme |-> lexeme, literal |-> literal]

\* eprintln!("[line {}] Error: {}", line, msg)
LexError(ln, msg) == [line |-> ln, msg |-> msg]

UnterminatedString == <<"Unterminated string.">>

UnexpectedCharacter(ch) == <<"Unexpected character: ", ch>>

\* the peek loop of the '"' arm (lines 170-185)
RECURSIVE tokenize_string(_, _)
tokenize_string(string_literal, rest) ==
    IF rest = <<>>
    THEN [text |-> string_literal, rest |-> rest,
          unterminated |-> TRUE, at_newline |-> FALSE]
    ELSE IF Head(rest) = "\""
    THEN [text |-> string_literal, rest |-> Tail(rest),
          unterminated |-> FALSE, at_newline |-> FALSE]
    ELSE IF Head(rest) = "\n"
    THEN [text |-> string_literal, rest |-> rest,
          unterminated |-> TRUE, at_newline |-> TRUE]
    ELSE tokenize_string(Append(string_literal, Head(rest)), Tail(rest))

\* a '"' arm that drops the rest of the input once a string is unterminated
tokenize_string_arm_swallowing(st, rest) ==
    LET r == tokenize_string(<<>>, rest)
    IN [st EXCEPT
          !.chars = IF r.unterminated THEN <<>> ELSE r.rest,
          !.had_error = @ \/ r.unterminated,
          !.stdout = IF r.unterminated THEN @
                     ELSE Append(@, TokenLine("STRING",
                                    <<"\"">> \o r.text \o <<"\"">>, r.text)),
          !.stderr = @ \o (IF r.unterminated
                           THEN <<LexError(st.line, UnterminatedString)>>
                           ELSE <<>>)]

\* the '"' arm of tokenize (lines 166-192)
tokenize_string_arm(st, rest) ==
    LET r == tokenize_string(<<>>, rest)
        in_loop ==
            IF r.at_newline THEN <<LexError(st.line, UnterminatedString)>>
            ELSE <<>>
        after_loop ==
            IF r.unterminated THEN <<LexError(st.line, UnterminatedString)>>
            ELSE <<>>
    IN [st EXCEPT
          !.chars = r.rest,
          !.had_error = @ \/ r.unterminated,
          !.stdout = IF r.unterminated THEN @
                     ELSE Append(@, TokenLine("STRING",
                                    <<"\"">> \o r.text \o <<"\"">>, r.text)),
          !.stderr = @ \o in_loop \o after_loop]

\* the digit arm of tokenize (lines 116-141)
tokenize_number_arm(st, ch, rest) ==
    LET r == scan_number(<<ch>>, rest, FALSE)
        literal == IF r.is_float
                   THEN format_float_value(parse_f64(r.text))
                   ELSE r.text \o <<".", "0">>
    IN [st EXCEPT !.chars = r.rest,
                  !.stdout = Append(@, TokenLine("NUMBER", r.text, literal))]

\* the identifier arm of tokenize (lines 144-163)
tokenize_identifier_arm(st, ch, rest) ==
    LET r == scan_identifier(<<ch>>, rest)
        type == IF r.text \in DOMAIN keywords THEN keywords[r.text]
                ELSE "IDENTIFIER"
    IN [st EXCEPT !.chars = r.rest,
                  !.stdout = Append(@, TokenLine(type, r.text, null))]

\* the '/' arm of tokenize (lines 98-113)
tokenize_slash_arm(st, rest) ==
    IF rest # <<>> /\ Head(rest) = "/"
    THEN [st EXCEPT !.chars = skip_comment(Tail(rest))]
    ELSE [st EXCEPT !.chars = rest,
                    !.stdout = Append(@, TokenLine("SLASH", <<"/">>, null))]

\* tokenize_comparison_arm that peeks at the '=' but never consumes it
tokenize_comparison_arm_unconsumed(st, ch, rest) ==
    IF rest # <<>> /\ Head(rest) = "="
    THEN [st EXCEPT !.chars = rest,
                    !.stdout = Append(@, TokenLine(Comparison[ch][2],
                                                   <<ch, "=">>, null))]
    ELSE [st EXCEPT !.chars = rest,
                    !.stdout = Append(@, TokenLine(Comparison[ch][1],
                                                   <<ch>>, null))]

\* the '<' '>' '!' '=' arms of tokenize (lines 195-226)
tokenize_comparison_arm(st, ch, rest) ==
    IF rest # <<>> /\ Head(rest) = "="
    THEN [st EXCEPT !.chars = Tail(rest),
                    !.stdout = Append(@, TokenLine(Comparison[ch][2],
                                                   <<ch, "=">>, null))]
    ELSE [st EXCEPT !.chars = rest,
                    !.stdout = Append(@, TokenLine(Comparison[ch][1],
                                                   <<ch>>, null))]

\* one iteration of `while let Some(ch) = chars.next()` (lines 86-240)
tokenize_step(st) ==
    LET ch == Head(st.chars)
        rest == Tail(st.chars)
    IN CASE ch \in DOMAIN Punctuation ->
              [st EXCEPT !.chars = rest,
                         !.stdout = Append(@, TokenLine(Punctuation[ch],
                                                        <<ch>>, null))]
         [] ch = "/" -> tokenize_slash_arm(st, rest)
         [] ch \in Digits -> tokenize_number_arm(st, ch, rest)
         [] ch \in IdentStart -> tokenize_identifier_arm(st, ch, rest)
         [] ch = "\"" -> tokenize_string_arm(st, rest)
         [] ch \in DOMAIN Comparison -> tokenize_comparison_arm(st, ch, rest)
         [] ch = "\n" -> [st EXCEPT !.chars = rest, !.line = @ + 1]
         [] ch \in {" ", "\t", "\r"} -> [st EXCEPT !.chars = rest]
         [] OTHER ->
              [st EXCEPT !.chars = rest,
                         !.had_error = TRUE,
                         !.stderr = Append(@, LexError(st.line,
                                                UnexpectedCharacter(ch)))]

\* tokenize_end with an early return that skips the EOF line once an error
\* was seen
tokenize_end_skipped_on_error(st) ==
    IF st.had_error THEN st
    ELSE [st EXCEPT !.stdout = Append(@, TokenLine("EOF", <<>>, null))]

\* after the loop: println!("EOF  null") and the return (lines 242-245)
tokenize_end(st) ==
    [st EXCEPT !.stdout = Append(@, TokenLine("EOF", <<>>, null))]

tokenize_start(input) ==
    [chars |-> input, line |-> 1, had_error |-> FALSE,
     stdout |-> <<>>, stderr |-> <<>>]

RECURSIVE tokenize_loop(_)
tokenize_loop(st) ==
    IF st.chars = <<>> THEN tokenize_end(st)
    ELSE tokenize_loop(tokenize_step(st))

\* the whole call tokenize(input): what it printed and what it returned
tokenize(input) ==
    LET st == tokenize_loop(tokenize_start(input))
    IN [stdout |-> st.stdout, stderr |-> st.stderr, returned |-> st.had_error]

(***************************************************************************)
(* scan_raw_tokens (lines 463-570).  A scanner state is the record         *)
(* [chars, line, tokens].                                                  *)
(***************************************************************************)
RawToken(token_type, lexeme, ln) ==
    [token_type |-> token_type, lexeme |-> lexeme, line |-> ln]

identify_keyword(s) ==
    CASE s = <<"t", "r", "u", "e">> -> "TRUE"
      [] s = <<"f", "a", "l", "s", "e">> -> "FALSE"
      [] s = <<"n", "i", "l">> -> "NIL"
      [] OTHER -> "IDENTIFIER"

\* the peek loop of the '"' arm (lines 489-499)
RECURSIVE scan_raw_string(_, _, _)
scan_raw_string(string_literal, rest, ln) ==
    IF rest = <<>>
    THEN [text |-> string_literal, rest |-> rest, line |-> ln]
    ELSE IF Head(rest) = "\""
    THEN [text |-> string_literal, rest |-> Tail(rest), line |-> ln]
    ELSE scan_raw_string(Append(string_literal, Head(rest)), Tail(rest),
                         IF Head(rest) = "\n" THEN ln + 1 ELSE ln)

\* the '"' arm of scan_raw_tokens (lines 484-510)
scan_raw_string_arm(st, rest) ==
    LET r == scan_raw_string(<<>>, rest, st.line)
    IN [chars |-> r.rest,
        line |-> r.line,
        tokens |-> Append(st.tokens, RawToken("STRING", r.text, r.line))]

\* one iteration of `while let Some(ch) = chars.next()` (lines 468-560)
scan_raw_step(st) ==
    LET ch == Head(st.chars)
        rest == Tail(st.chars)
    IN CASE ch = "(" ->
              [st EXCEPT !.chars = rest,
                         !.tokens = Append(@, RawToken("LEFT_PAREN", <<"(">>,
                                                       st.line))]
         [] ch = ")" ->
              [st EXCEPT !.chars = rest,
                         !.tokens = Append(@, RawToken("RIGHT_PAREN", <<")">>,
                                                       st.line))]
         [] ch = "\"" -> scan_raw_string_arm(st, rest)
         [] ch \in Digits ->
              LET r == scan_number(<<ch>>, rest, FALSE)
              IN [st EXCEPT !.chars = r.rest,
                            !.tokens = Append(@, RawToken("NUMBER", r.text,
                                                          st.line))]
         [] ch \in IdentStart ->
              LET r == scan_identifier(<<ch>>, rest)
              IN [st EXCEPT !.chars = r.rest,
                            !.tokens = Append(@, RawToken(
                                identify_keyword(r.text), r.text, st.line))]
         [] ch = "\n" -> [st EXCEPT !.chars = rest, !.line = @ + 1]
         [] OTHER -> [st EXCEPT !.chars = rest]

\* after the loop: push an EOF (lines 562-569)
scan_raw_end(st) ==
    [st EXCEPT !.tokens = Append(@, RawToken("EOF", <<>>, st.line))]

scan_raw_start(src) == [chars |-> src, line |-> 1, tokens |-> <<>>]

RECURSIVE scan_raw_loop(_)
scan_raw_loop(st) ==
    IF st.chars = <<>> THEN scan_raw_end(st)
    ELSE scan_raw_loop(scan_raw_step(st))

scan_raw_tokens(src) == scan_raw_loop(scan_raw_start(src)).tokens

(***************************************************************************)
(* convert_token (lines 583-609) and the parser's data (lines 263-304).    *)
(***************************************************************************)
Token(token_type, lexeme, ln) ==
    [token_type |-> token_type, lexeme |-> lexeme, line |-> ln]

convert_token(rtok) ==
    LET token_type ==
          CASE rtok.token_type = "LEFT_PAREN" -> [tag |-> "LeftParen"]
            [] rtok.token_type = "RIGHT_PAREN" -> [tag |-> "RightParen"]
            [] rtok.token_type = "STRING" ->
                 [tag |-> "StringLit", value |-> rtok.lexeme]
            [] rtok.token_type = "TRUE" -> [tag |-> "True"]
            [] rtok.token_type = "FALSE" -> [tag |-> "False"]
            [] rtok.token_type = "NIL" -> [tag |-> "Nil"]
            [] rtok.token_type = "NUMBER" ->
                 [tag |-> "Number", value |-> parse_f64(rtok.lexeme)]
            [] rtok.token_type = "EOF" -> [tag |-> "Eof"]
            [] OTHER -> [tag |-> "Nil"]
    IN Token(token_type, rtok.lexeme, rtok.line)

Literal(value) == [node |-> "Literal", value |-> value]

Grouping(inner) == [node |-> "Grouping", inner |-> inner]

Boolean(b) == [lit |-> "Boolean", b |-> b]

Nil == [lit |-> "Nil"]

Number(n) == [lit |-> "Number", n |-> n]

Str(s) == [lit |-> "Str", s |-> s]

\* no call of primary has returned yet
NoExpr == [node |-> "None"]

Parser_new(tokens) ==
    [tokens |-> tokens, current |-> 0, had_error |-> FALSE]

\* peek_token whose out-of-range branch reads the first token
peek_token_first(p) ==
    IF p.current >= Len(p.tokens)
    THEN p.tokens[1]
    ELSE p.tokens[p.current + 1]

\* Parser::peek_token (lines 386-393); `current` is a 0-based index
peek_token(p) ==
    IF p.current >= Len(p.tokens)
    THEN p.tokens[Len(p.tokens)]
    ELSE p.tokens[p.current + 1]

\* an advance that never moves the cursor
advance_stuck(p) == p

\* Parser::advance (lines 396-400)
advance(p) ==
    IF p.current < Len(p.tokens)
    THEN [p EXCEPT !.current = @ + 1]
    ELSE p

\* eprintln!("Parse error: {}", msg)
ParseError(msg) == [parse_error |-> msg]

ExpectedExpression == "Expected expression."

ExpectedRightParen == "Expected ')' after expression."

(***************************************************************************)
(* A parser state is the record [parser, stack, calls, expr, stderr, pc].  *)
(* pc = "primary": a call of primary is about to run; pc = "return": a     *)
(* call of primary has just returned expr to its caller.                   *)
(***************************************************************************)
\* an error that prints the diagnostic and leaves the flag alone
error_without_flag(ps, msg) ==
    [ps EXCEPT !.stderr = Append(@, ParseError(msg))]

\* Parser::error (lines 380-383)
error(ps, msg) ==
    [ps EXCEPT !.parser.had_error = TRUE,
               !.stderr = Append(@, ParseError(msg))]

\* Parser::primary up to its return or its recursive call (lines 332-361,
\* 370-375)
primary(ps) ==
    LET token == peek_token(ps.parser)
        tag == token.token_type.tag
        called == [ps EXCEPT !.calls = @ + 1]
        consumed == [called EXCEPT !.parser = advance(@)]
    IN CASE tag = "True" ->
              [consumed EXCEPT !.expr = Literal(Boolean(TRUE)),
                               !.pc = "return"]
         [] tag = "False" ->
              [consumed EXCEPT !.expr = Literal(Boolean(FALSE)),
                               !.pc = "return"]
         [] tag = "Nil" ->
              [consumed EXCEPT !.expr = Literal(Nil), !.pc = "return"]
         [] tag = "Number" ->
              [consumed EXCEPT !.expr = Literal(Number(token.token_type.value)),
                               !.pc = "return"]
         [] tag = "StringLit" ->
              [consumed EXCEPT !.expr = Literal(Str(token.token_type.value)),
                               !.pc = "return"]
         [] tag = "LeftParen" ->
              [consumed EXCEPT !.stack = Append(@, "LeftParen"),
                               !.pc = "primary"]
         [] tag \in {"RightParen", "Eof"} ->
              [error(called, ExpectedExpression) EXCEPT
                   !.expr = Literal(Nil), !.pc = "return"]

\* primary_group with an error path that also steps over the offending token
primary_group_skipping(ps) ==
    LET closed == peek_token(ps.parser).token_type.tag = "RightParen"
        checked == IF closed THEN [ps EXCEPT !.parser = advance(@)]
                   ELSE [error(ps, ExpectedRightParen) EXCEPT
                            !.parser = advance(@)]
    IN [checked EXCEPT !.stack = SubSeq(@, 1, Len(@) - 1),
                       !.expr = Grouping(ps.expr),
                       !.pc = "return"]

\* the rest of the '(' arm once self.expression() has returned
\* (lines 362-368)
primary_group(ps) ==
    LET closed == peek_token(ps.parser).token_type.tag = "RightParen"
        checked == IF closed THEN [ps EXCEPT !.parser = advance(@)]
                   ELSE error(ps, ExpectedRightParen)
    IN [checked EXCEPT !.stack = SubSeq(@, 1, Len(@) - 1),
                       !.expr = Grouping(ps.expr),
                       !.pc = "return"]

\* Parser::parse after self.expression() (lines 319-323)
\* a Parser::parse that also demands the cursor to rest on end-of-input
Parser_parse_result_at_end(ps) ==
    IF ps.parser.had_error \/ peek_token(ps.parser).token_type.tag # "Eof"
    THEN None
    ELSE Some(ps.expr)

Parser_parse_result(ps) ==
    IF ps.parser.had_error THEN None ELSE Some(ps.expr)

parser_start(tokens) ==
    [parser |-> Parser_new(tokens), stack |-> <<>>, calls |-> 0,
     expr |-> NoExpr, stderr |-> <<>>, pc |-> "primary"]

RECURSIVE parser_loop(_)
parser_loop(ps) ==
    IF ps.pc = "primary" THEN parser_loop(primary(ps))
    ELSE IF ps.stack # <<>> THEN parser_loop(primary_group(ps))
    ELSE ps

(***************************************************************************)
(* print_ast (lines 408-418) and parse (lines 424-450).                    *)
(***************************************************************************)
\* print_ast that renders a Grouping as bare parentheses
RECURSIVE print_ast_bare_parens(_)
print_ast_bare_parens(e) ==
    IF e.node = "Grouping"
    THEN <<"(">> \o print_ast_bare_parens(e.inner) \o <<")">>
    ELSE CASE e.value.lit = "Boolean" ->
                IF e.value.b THEN <<"t", "r", "u", "e">>
                ELSE <<"f", "a", "l", "s", "e">>
           [] e.value.lit = "Nil" -> <<"n", "i", "l">>
           [] e.value.lit = "Number" -> format_float_value(e.value.n)
           [] e.value.lit = "Str" -> <<"\"">> \o e.value.s \o <<"\"">>

RECURSIVE print_ast(_)
print_ast(e) ==
    IF e.node = "Grouping"
    THEN <<"(", "g", "r", "o", "u", "p", " ">> \o print_ast(e.inner) \o <<")">>
    ELSE CASE e.value.lit = "Boolean" ->
                IF e.value.b THEN <<"t", "r", "u", "e">>
                ELSE <<"f", "a", "l", "s", "e">>
           [] e.value.lit = "Nil" -> <<"n", "i", "l">>
           [] e.value.lit = "Number" -> format_float_value(e.value.n)
           [] e.value.lit = "Str" -> <<"\"">> \o e.value.s \o <<"\"">>

\* println!("{}", text)
TextLine(text) == [text |-> text]

\* the loop of lines 432-435
convert_tokens(raw) == [i \in 1..Len(raw) |-> convert_token(raw[i])]

\* parse after Parser::parse has returned (lines 441-449)
parse_finish(p, result) ==
    IF p.had_error \/ result = None
    THEN [stdout |-> <<>>, returned |-> TRUE]
    ELSE [stdout |-> <<TextLine(print_ast(result[1]))>>, returned |-> FALSE]

\* the whole call parse(source): what it printed and what it returned
parse(src) ==
    LET ps == parser_loop(parser_start(convert_tokens(scan_raw_tokens(src))))
        fin == parse_finish(ps.parser, Parser_parse_result(ps))
    IN [stdout |-> fin.stdout, stderr |-> ps.stderr,
        returned |-> fin.returned]

(***************************************************************************)
(* The inputs: every concatenation of at most MaxFragments fragments.      *)
(* The fragments cover the arms of both scanners' matches: parentheses,    *)
(* other punctuation, '/', comparison, digits, identifiers, the keywords   *)
(* the parser knows and one it does not, strings, newlines and a           *)
(* character no arm accepts.                                               *)
(***************************************************************************)
Fragments ==
    { <<"(">>, <<")">>, <<"\"">>, <<"\n">>, <<"/">>, <<".">>, <<"0">>,
      <<"7">>, <<"a">>, <<"@">>, <<"=">>,
      <<"t", "r", "u", "e">>, <<"f", "a", "l", "s", "e">>, <<"n", "i", "l">>,
      <<"o", "r">> }

RECURSIVE SourcesOfLength(_)
SourcesOfLength(n) ==
    IF n = 0 THEN {<<>>}
    ELSE {s \o f : s \in SourcesOfLength(n - 1), f \in Fragments}

Sources == UNION {SourcesOfLength(n) : n \in 0..MaxFragments}

(***************************************************************************)
(* main (lines 6-55) has read the file and is about to call tokenize or    *)
(* parse on its contents.                                                  *)
(***************************************************************************)
Init ==
    /\ source \in Sources
    /\ command \in {"tokenize", "parse"}
    /\ pc = IF command = "tokenize" THEN "tokenize" ELSE "scan_raw_tokens"
    /\ chars = source
    /\ line = 1
    /\ had_error = FALSE
    /\ stdout = <<>>
    /\ stderr = <<>>
    /\ raw_tokens = <<>>
    /\ parser = Parser_new(<<>>)
    /\ stack = <<>>
    /\ calls = 0
    /\ expr = NoExpr
    /\ ast = None
    /\ returned = None

TokenizeState ==
    [chars |-> chars, line |-> line, had_error |-> had_error,
     stdout |-> stdout, stderr |-> stderr]

ScanRawState == [chars |-> chars, line |-> line, tokens |-> raw_tokens]

ParserState ==
    [parser |-> parser, stack |-> stack, calls |-> calls, expr |-> expr,
     stderr |-> stderr, pc |-> pc]

\* tokenize: one iteration of the scanning loop
TokenizeStep ==
    /\ pc = "tokenize"
    /\ chars # <<>>
    /\ LET st == tokenize_step(TokenizeState)
       IN /\ chars' = st.chars
          /\ line' = st.line
          /\ had_error' = st.had_error
          /\ stdout' = st.stdout
          /\ stderr' = st.stderr
    /\ UNCHANGED <<source, command, pc, raw_tokens, parser, stack, calls,
                   expr, ast, returned>>

\* tokenize: the input is exhausted; print EOF and return had_error
TokenizeEnd ==
    /\ pc = "tokenize"
    /\ chars = <<>>
    /\ stdout' = tokenize_end(TokenizeState).stdout
    /\ returned' = Some(had_error)
    /\ pc' = "done"
    /\ UNCHANGED <<source, command, chars, line, had_error, stderr,
                   raw_tokens, parser, stack, calls, expr, ast>>

\* scan_raw_tokens: one iteration of the scanning loop
ScanRawStep ==
    /\ pc = "scan_raw_tokens"
    /\ chars # <<>>
    /\ LET st == scan_raw_step(ScanRawState)
       IN /\ chars' = st.chars
          /\ line' = st.line
          /\ raw_tokens' = st.tokens
    /\ UNCHANGED <<source, command, pc, had_error, stdout, stderr, parser,
                   stack, calls, expr, ast, returned>>

\* scan_raw_tokens: the input is exhausted; push EOF and return the tokens
ScanRawEnd ==
    /\ pc = "scan_raw_tokens"
    /\ chars = <<>>
    /\ raw_tokens' = scan_raw_end(ScanRawState).tokens
    /\ pc' = "convert"
    /\ UNCHANGED <<source, command, chars, line, had_error, stdout, stderr,
                   parser, stack, calls, expr, ast, returned>>

\* parse: convert the raw tokens and construct the parser (lines 432-438)
Convert ==
    /\ pc = "convert"
    /\ parser' = Parser_new(convert_tokens(raw_tokens))
    /\ pc' = "primary"
    /\ UNCHANGED <<source, command, chars, line, had_error, stdout, stderr,
                   raw_tokens, stack, calls, expr, ast, returned>>

ParserStep(ps) ==
    /\ parser' = ps.parser
    /\ stack' = ps.stack
    /\ calls' = ps.calls
    /\ expr' = ps.expr
    /\ stderr' = ps.stderr
    /\ pc' = ps.pc
    /\ UNCHANGED <<source, command, chars, line, had_error, stdout,
                   raw_tokens, ast, returned>>

\* a call of Parser::primary, up to its return or its recursive call
Primary ==
    /\ pc = "primary"
    /\ ParserStep(primary(ParserState))

\* the inner expression of a '(' has returned: expect ')' and return
PrimaryGroup ==
    /\ pc = "return"
    /\ stack # <<>>
    /\ ParserStep(primary_group(ParserState))

\* the outermost expression has returned: Parser::parse returns
ParserParse ==
    /\ pc = "return"
    /\ stack = <<>>
    /\ ast' = Parser_parse_result(ParserState)
    /\ pc' = "parsed"
    /\ UNCHANGED <<source, command, chars, line, had_error, stdout, stderr,
                   raw_tokens, parser, stack, calls, expr, returned>>

\* parse: print the AST or report the error to main (lines 441-449)
ParseFinish ==
    /\ pc = "parsed"
    /\ LET fin == parse_finish(parser, ast)
       IN /\ stdout' = stdout \o fin.stdout
          /\ returned' = Some(fin.returned)
    /\ pc' = "done"
    /\ UNCHANGED <<source, command, chars, line, had_error, stderr,
                   raw_tokens, parser, stack, calls, expr, ast>>

Next ==
    \/ TokenizeStep
    \/ TokenizeEnd
    \/ ScanRawStep
    \/ ScanRawEnd
    \/ Convert
    \/ Primary
    \/ PrimaryGroup
    \/ ParserParse
    \/ ParseFinish

Spec == Init /\ [][Next]_vars

(***************************************************************************)
(* Notions the properties below are stated in.                             *)
(***************************************************************************)
\* the lexical diagnostics of a source: what the Scanner reports for it
LexicalErrors(src) == tokenize(src).stderr

HasLexicalError(src) == LexicalErrors(src) # <<>>

\* the Scanner's token sequence of a source
ScannerTokens(src) == tokenize(src).stdout

\* the kinds and lexemes of a raw token sequence, as the Scanner prints them
KindsAndLexemes(raw) ==
    [i \in 1..Len(raw) |->
        [type |-> raw[i].token_type,
         lexeme |-> IF raw[i].token_type = "STRING"
                    THEN <<"\"">> \o raw[i].lexeme \o <<"\"">>
                    ELSE raw[i].lexeme]]

ParseDone == command = "parse" /\ pc = "done"

TokenizeDone == command = "tokenize" /\ pc = "done"

\* the part of the source the running scanner has consumed
Consumed == SubSeq(source, 1, Len(source) - Len(chars))

RECURSIVE Count(_, _)
Count(c, text) ==
    IF text = <<>> THEN 0
    ELSE (IF Head(text) = c THEN 1 ELSE 0) + Count(c, Tail(text))

\* a closing quote comes before the next newline and before the end
RECURSIVE ClosesOnLine(_)
ClosesOnLine(rest) ==
    IF rest = <<>> \/ Head(rest) = "\n" THEN FALSE
    ELSE IF Head(rest) = "\"" THEN TRUE
    ELSE ClosesOnLine(Tail(rest))

\* C1: parse returns had_error = true and prints no AST for every source
\* that contains a lexical error (an unterminated string or a character no
\* scanning rule accepts).
C1_ParseReportsLexicalErrors ==
    (ParseDone /\ HasLexicalError(source))
        => (returned = Some(TRUE) /\ stdout = <<>>)

\* C2: for each unterminated string, whether a newline or the end of input
\* ends it, tokenize emits exactly one `Unterminated string` diagnostic and
\* no STRING token.
C2_UnterminatedReportedOnce ==
    [][(pc = "tokenize" /\ chars # <<>> /\ Head(chars) = "\""
            /\ ~ClosesOnLine(Tail(chars)))
        => (/\ stderr' = Append(stderr, LexError(line, UnterminatedString))
            /\ stdout' = stdout)]_vars

\* the token at index i of a token sequence stands where the grammar
\* expects an expression: the first token, and the token after a '(' that
\* itself stands where an expression is expected
RECURSIVE ExpressionExpectedAt(_, _)
ExpressionExpectedAt(toks, i) ==
    \/ i = 1
    \/ /\ i > 1
       /\ toks[i - 1].type = "LEFT_PAREN"
       /\ ExpressionExpectedAt(toks, i - 1)

ExpressionStarts == {"TRUE", "FALSE", "NIL", "NUMBER", "STRING", "LEFT_PAREN"}

\* C3: whenever the token where an expression is expected is anything other
\* than true, false, nil, a NUMBER, a STRING or '(', parse reports
\* `Expected expression`, sets the error flag and prints no AST.
C3_ExpectedExpressionReported ==
    (ParseDone /\ \E i \in 1..Len(ScannerTokens(source)) :
                     /\ ExpressionExpectedAt(ScannerTokens(source), i)
                     /\ ScannerTokens(source)[i].type \notin ExpressionStarts)
        => (/\ ParseError(ExpectedExpression) \in {stderr[k] : k \in DOMAIN stderr}
            /\ parser.had_error
            /\ returned = Some(TRUE)
            /\ stdout = <<>>)

\* the source without the text of its line comments; a `//` inside a string
\* literal starts no comment
RECURSIVE StripComments(_)
StripComments(src) ==
    IF src = <<>> THEN <<>>
    ELSE IF Head(src) = "\""
    THEN LET r == tokenize_string(<<>>, Tail(src))
             n == Len(src) - Len(r.rest)
         IN SubSeq(src, 1, n) \o StripComments(r.rest)
    ELSE IF Head(src) = "/" /\ Len(src) > 1 /\ src[2] = "/"
    THEN StripComments(skip_comment(Tail(Tail(src))))
    ELSE <<Head(src)>> \o StripComments(Tail(src))

\* C4: line comments produce no tokens, in tokenize's scan and in the scan
\* inside parse: the tokens and the parse result of a source are those of the
\* source with the comment text removed; a '/' not followed by '/' yields a
\* SLASH token.
C4_CommentsProduceNoTokens ==
    /\ TokenizeDone => stdout = tokenize(StripComments(source)).stdout
    /\ ParseDone =>
          /\ raw_tokens = scan_raw_tokens(StripComments(source))
          /\ stdout = parse(StripComments(source)).stdout
          /\ returned = Some(parse(StripComments(source)).returned)
    /\ (TokenizeDone /\ source = <<"/">>) => stdout[1].type = "SLASH"

\* a sequence of token kinds and lexemes ends with an end-of-input token of
\* empty lexeme and holds no other end-of-input token
EndsWithOneEof(kinds, lexemes) ==
    /\ kinds # <<>>
    /\ kinds[Len(kinds)] = "EOF"
    /\ lexemes[Len(kinds)] = <<>>
    /\ \A i \in 1..(Len(kinds) - 1) : kinds[i] # "EOF"

StdoutKinds == [i \in DOMAIN stdout |-> stdout[i].type]

StdoutLexemes == [i \in DOMAIN stdout |-> stdout[i].lexeme]

RawKinds == [i \in DOMAIN raw_tokens |-> raw_tokens[i].token_type]

RawLexemes == [i \in DOMAIN raw_tokens |-> raw_tokens[i].lexeme]

\* C5: for every input, with or without lexical errors, scanning runs to
\* completion (every iteration consumes input, and the scanner is never
\* stuck before it returns) and the emitted token sequence ends with exactly
\* one end-of-input token with empty lexeme; no end-of-input token appears
\* anywhere else.
C5_ScanEndsWithOneEof ==
    /\ (pc = "tokenize" /\ chars # <<>>)
          => Len(tokenize_step(TokenizeState).chars) < Len(chars)
    /\ (pc = "scan_raw_tokens" /\ chars # <<>>)
          => Len(scan_raw_step(ScanRawState).chars) < Len(chars)
    /\ pc \in {"tokenize", "scan_raw_tokens"} => ENABLED Next
    /\ pc = "tokenize" => \A i \in DOMAIN stdout : stdout[i].type # "EOF"
    /\ pc = "scan_raw_tokens"
          => \A i \in DOMAIN raw_tokens : raw_tokens[i].token_type # "EOF"
    /\ TokenizeDone => EndsWithOneEof(StdoutKinds, StdoutLexemes)
    /\ (command = "parse" /\ pc # "scan_raw_tokens")
          => EndsWithOneEof(RawKinds, RawLexemes)

\* tokenize has returned on an input with a lexical error that also yielded
\* a token before the end-of-input token
C5_Witness ==
    /\ TokenizeDone
    /\ returned = Some(TRUE)
    /\ Len(stdout) >= 2

\* the number of lines a println! record puts on the result channel
LinesOf(rec) == 1 + Count("\n", rec.text)

\* C6: Parser::parse returns an AST if and only if the parser's error flag
\* is clear at the end of parsing; parse writes exactly one line to the
\* result channel when it returns false and nothing when it returns true.
C6_AstIffNoError ==
    /\ (command = "parse" /\ pc \in {"parsed", "done"})
          => (ast # None <=> ~parser.had_error)
    /\ (ParseDone /\ returned = Some(FALSE))
          => (Len(stdout) = 1 /\ LinesOf(stdout[1]) = 1)
    /\ (ParseDone /\ returned = Some(TRUE)) => stdout = <<>>

\* the 1-based line of the next unread character
StartLine == 1 + Count("\n", Consumed)

\* C7: the line attached to every token and to every lexical diagnostic is
\* the line on which the token or offending construct started, 1 plus the
\* number of newlines before its first character, and each newline
\* increments the line counter exactly once.
C7_LinesAreStartLines ==
    [][/\ pc = "scan_raw_tokens"
            => /\ \A i \in (Len(raw_tokens) + 1)..Len(raw_tokens') :
                     raw_tokens'[i].line = StartLine
               /\ line' = 1 + Count("\n", Consumed')
       /\ pc = "tokenize"
            => /\ \A i \in (Len(stderr) + 1)..Len(stderr') :
                     stderr'[i].line = StartLine
               /\ line' = 1 + Count("\n", Consumed')]_vars

\* the number of diagnostics on the error channel that report msg
ParseErrors(msg) ==
    Cardinality({k \in DOMAIN stderr : stderr[k] = ParseError(msg)})

\* the number of tokens of the given kind the parser has consumed
ConsumedTokens(tag) ==
    Cardinality({i \in 1..parser.current :
                    parser.tokens[i].token_type.tag = tag})

\* C8: when primary has consumed '(' and parsed the inner expression and the
\* current token is not ')', it records `Expected ')' after expression`
\* exactly once for that group, sets the error flag, does not advance the
\* cursor and still returns a Grouping around the inner expression; when the
\* current token is ')' it consumes exactly that token and records no error.
C8_GroupingClose ==
    /\ [][(pc = "return" /\ stack # <<>>)
            => /\ expr' = Grouping(expr)
               /\ stack' = SubSeq(stack, 1, Len(stack) - 1)
               /\ IF parser.tokens[parser.current + 1].token_type.tag
                        = "RightParen"
                  THEN /\ parser'.current = parser.current + 1
                       /\ parser'.had_error = parser.had_error
                       /\ stderr' = stderr
                  ELSE /\ parser'.current = parser.current
                       /\ parser'.had_error
                       /\ stderr' = Append(stderr,
                                           ParseError(ExpectedRightParen))]_vars
    /\ [](pc \in {"primary", "return", "parsed", "done"} /\ command = "parse"
            => /\ parser.current < Len(parser.tokens)
               /\ ParseErrors(ExpectedRightParen) + ConsumedTokens("RightParen")
                     + Len(stack)
                  = ConsumedTokens("LeftParen"))

\* primary has just returned a Grouping whose ')' was missing
C8_Witness ==
    /\ pc = "return"
    /\ expr.node = "Grouping"
    /\ expr.inner.node = "Literal"
    /\ stderr = <<ParseError(ExpectedRightParen)>>
    /\ parser.had_error
    /\ parser.tokens[parser.current + 1].token_type.tag = "Eof"

\* a text a NUMBER token can be scanned from: digits with at most one '.',
\* starting at a digit
IsNumericLiteral(text) ==
    /\ text # <<>>
    /\ Head(text) \in Digits
    /\ \A i \in DOMAIN text : text[i] \in Digits \cup {"."}
    /\ Count(".", text) <= 1

\* C9: for every numeric literal text, the value column tokenize prints for
\* the NUMBER token equals the text print_ast renders for the
\* Literal(Number) obtained by parsing the same text.
C9_SameNumberFormatting ==
    (TokenizeDone /\ IsNumericLiteral(source))
        => stdout[1].literal = parse(source).stdout[1].text

\* the maximal prefix of a text that consists of digits and at most one '.'
RECURSIVE NumberRun(_, _)
NumberRun(text, dot_seen) ==
    IF text = <<>> THEN <<>>
    ELSE IF Head(text) \in Digits
    THEN <<Head(text)>> \o NumberRun(Tail(text), dot_seen)
    ELSE IF Head(text) = "." /\ ~dot_seen
    THEN <<".">> \o NumberRun(Tail(text), TRUE)
    ELSE <<>>

\* the consumed input ends with a NUMBER lexeme that holds a '.', and the
\* next unread character is a '.'
AtSecondDot(last_kind, last_lexeme) ==
    /\ chars # <<>>
    /\ Head(chars) = "."
    /\ last_kind = "NUMBER"
    /\ Count(".", last_lexeme) = 1
    /\ Len(Consumed) >= Len(last_lexeme)
    /\ SubSeq(Consumed, Len(Consumed) - Len(last_lexeme) + 1, Len(Consumed))
          = last_lexeme

\* C10: a NUMBER lexeme is the maximal run, starting at a digit, of digits
\* and at most one '.'; the first '.' is accepted even when no digit follows
\* it, and a second '.' is never part of the lexeme: it ends the number and
\* is scanned as a separate DOT token.
C10_NumberLexeme ==
    [][/\ (pc = "tokenize" /\ chars # <<>> /\ Head(chars) \in Digits)
            => /\ Len(stdout') = Len(stdout) + 1
               /\ stdout'[Len(stdout')].type = "NUMBER"
               /\ stdout'[Len(stdout')].lexeme = NumberRun(chars, FALSE)
               /\ chars' = SubSeq(chars, Len(NumberRun(chars, FALSE)) + 1,
                                  Len(chars))
       /\ (pc = "scan_raw_tokens" /\ chars # <<>> /\ Head(chars) \in Digits)
            => /\ Len(raw_tokens') = Len(raw_tokens) + 1
               /\ raw_tokens'[Len(raw_tokens')].token_type = "NUMBER"
               /\ raw_tokens'[Len(raw_tokens')].lexeme = NumberRun(chars, FALSE)
               /\ chars' = SubSeq(chars, Len(NumberRun(chars, FALSE)) + 1,
                                  Len(chars))
       /\ (pc = "tokenize" /\ stdout # <<>>
             /\ AtSecondDot(stdout[Len(stdout)].type,
                            stdout[Len(stdout)].lexeme))
            => stdout' = Append(stdout, TokenLine("DOT", <<".">>, null))
       /\ (pc = "scan_raw_tokens" /\ raw_tokens # <<>>
             /\ AtSecondDot(raw_tokens[Len(raw_tokens)].token_type,
                            raw_tokens[Len(raw_tokens)].lexeme))
            => raw_tokens' = Append(raw_tokens,
                                    RawToken("DOT", <<".">>, line))]_vars

(***************************************************************************)
(* tokenize on runs of comparison characters.                              *)
(***************************************************************************)
MaxOperators == 5

OperatorChars == {"<", ">", "!", "=", "a"}

OperatorSources ==
    UNION {[1..n -> OperatorChars] : n \in 0..MaxOperators}

\* main is about to call tokenize on a run of comparison characters
InitOperators ==
    /\ source \in OperatorSources
    /\ command = "tokenize"
    /\ pc = "tokenize"
    /\ chars = source
    /\ line = 1
    /\ had_error = FALSE
    /\ stdout = <<>>
    /\ stderr = <<>>
    /\ raw_tokens = <<>>
    /\ parser = Parser_new(<<>>)
    /\ stack = <<>>
    /\ calls = 0
    /\ expr = NoExpr
    /\ ast = None
    /\ returned = None

NextTokenize ==
    \/ TokenizeStep
    \/ TokenizeEnd

SpecOperators == InitOperators /\ [][NextTokenize]_vars

\* the kind of the one-character and of the two-character token that
\* starts with c
OneCharKind(c) ==
    CASE c = "<" -> "LESS"
      [] c = ">" -> "GREATER"
      [] c = "!" -> "BANG"
      [] c = "=" -> "EQUAL"

TwoCharKind(c) ==
    CASE c = "<" -> "LESS_EQUAL"
      [] c = ">" -> "GREATER_EQUAL"
      [] c = "!" -> "BANG_EQUAL"
      [] c = "=" -> "EQUAL_EQUAL"

Repeat(x, n) == [i \in 1..n |-> x]

\* C11: each of '<', '>', '!', '=' immediately followed by '=' yields exactly
\* one two-character token and the consumed '=' is never scanned again;
\* otherwise the one-character token is emitted.  A run of n '=' yields
\* floor(n/2) EQUAL_EQUAL tokens followed by (n mod 2) EQUAL tokens.
C11_ComparisonTokens ==
    /\ [][(pc = "tokenize" /\ chars # <<>>
             /\ Head(chars) \in {"<", ">", "!", "="})
            => IF Len(chars) > 1 /\ chars[2] = "="
               THEN /\ stdout' = Append(stdout,
                          TokenLine(TwoCharKind(Head(chars)),
                                    <<Head(chars), "=">>, null))
                    /\ chars' = Tail(Tail(chars))
               ELSE /\ stdout' = Append(stdout,
                          TokenLine(OneCharKind(Head(chars)),
                                    <<Head(chars)>>, null))
                    /\ chars' = Tail(chars)]_vars
    /\ [](TokenizeDone /\ source = Repeat("=", Len(source))
            => StdoutKinds = Repeat("EQUAL_EQUAL", Len(source) \div 2)
                             \o Repeat("EQUAL", Len(source) % 2)
                             \o <<"EOF">>)

\* tokenize has returned on `===`: one EQUAL_EQUAL, then one EQUAL
C11_Witness ==
    /\ TokenizeDone
    /\ source = <<"=", "=", "=">>
    /\ StdoutKinds = <<"EQUAL_EQUAL", "EQUAL", "EOF">>
    /\ stderr = <<>>

(***************************************************************************)
(* parse on nested groupings: k '(' characters, a literal, j <= k ')'      *)
(* characters.                                                             *)
(***************************************************************************)
MaxDepth == 3

\* literal texts, each with the text Rust renders for the literal's value
NestedLiterals ==
    { [text |-> <<"t", "r", "u", "e">>, render |-> <<"t", "r", "u", "e">>],
      [text |-> <<"f", "a", "l", "s", "e">>,
       render |-> <<"f", "a", "l", "s", "e">>],
      [text |-> <<"n", "i", "l">>, render |-> <<"n", "i", "l">>],
      [text |-> <<"7">>, render |-> <<"7", ".", "0">>],
      [text |-> <<"0", ".", "7", "0">>, render |-> <<"0", ".", "7">>],
      [text |-> <<"\"", "a", "\"">>, render |-> <<"\"", "a", "\"">>] }

Nest(k, text, j) ==
    [i \in 1..k |-> "("] \o text \o [i \in 1..j |-> ")"]

NestedSources ==
    {Nest(k, l.text, j) : k \in 0..MaxDepth, j \in 0..MaxDepth,
                          l \in NestedLiterals}

\* main is about to call parse on a nested grouping
InitNested ==
    /\ source \in {s \in NestedSources :
                      Count(")", s) <= Count("(", s)}
    /\ command = "parse"
    /\ pc = "scan_raw_tokens"
    /\ chars = source
    /\ line = 1
    /\ had_error = FALSE
    /\ stdout = <<>>
    /\ stderr = <<>>
    /\ raw_tokens = <<>>
    /\ parser = Parser_new(<<>>)
    /\ stack = <<>>
    /\ calls = 0
    /\ expr = NoExpr
    /\ ast = None
    /\ returned = None

NextParse ==
    \/ ScanRawStep
    \/ ScanRawEnd
    \/ Convert
    \/ Primary
    \/ PrimaryGroup
    \/ ParserParse
    \/ ParseFinish

SpecNested == InitNested /\ [][NextParse]_vars

\* k nested `(group ...)` wrappers around a text
RECURSIVE GroupText(_, _)
GroupText(k, text) ==
    IF k = 0 THEN text
    ELSE <<"(", "g", "r", "o", "u", "p", " ">>
            \o GroupText(k - 1, text) \o <<")">>

\* C12: for every k and every literal L among true, false, nil, a number or
\* a string, parsing k '(' then L then k ')' succeeds with no error and
\* renders as k nested `(group ...)` wrappers around the rendering of L;
\* with fewer than k closing parentheses the parse reports an error and
\* prints no AST.
C12_NestedGroups ==
    ParseDone =>
        \A k \in 0..MaxDepth, j \in 0..MaxDepth, l \in NestedLiterals :
            (j <= k /\ source = Nest(k, l.text, j)) =>
                IF j = k
                THEN /\ returned = Some(FALSE)
                     /\ stderr = <<>>
                     /\ stdout = <<TextLine(GroupText(k, l.render))>>
                ELSE /\ returned = Some(TRUE)
                     /\ stderr # <<>>
                     /\ stdout = <<>>

\* parse has printed `(group (group 0.7))` for `((0.70))`
C12_Witness ==
    /\ ParseDone
    /\ source = Nest(2, <<"0", ".", "7", "0">>, 2)
    /\ returned = Some(FALSE)
    /\ stdout = <<TextLine(GroupText(2, <<"0", ".", "7">>))>>

\* what the running scanner consumes in the step it is about to take
Taken == SubSeq(chars, 1, Len(chars) - Len(chars'))

\* C13: lexical errors in tokenize are non-fatal and cumulative: the flag is
\* false initially, true from the first diagnostic on and never cleared, the
\* returned flag is true exactly when a diagnostic was emitted, and the
\* tokens after an erroneous character or an unterminated string are still
\* emitted in input order: an erroneous character costs only itself, an
\* unterminated string only the text up to the newline or the end, and what
\* is printed from there on is what the rest of the input prints on its own.
C13_ErrorsAreCumulative ==
    /\ [](command = "tokenize" =>
            /\ had_error <=> stderr # <<>>
            /\ (chars = source /\ pc = "tokenize") => ~had_error
            /\ pc = "done" => returned = Some(stderr # <<>>)
            /\ pc = "tokenize" =>
                  ScannerTokens(source) = stdout \o ScannerTokens(chars))
    /\ [][command = "tokenize" =>
            /\ had_error => had_error'
            /\ Len(stderr') >= Len(stderr)
            /\ SubSeq(stderr', 1, Len(stderr)) = stderr
            /\ SubSeq(stdout', 1, Len(stdout)) = stdout
            /\ (pc = "tokenize" /\ chars # <<>> /\ Head(chars) = "@") =>
                  /\ chars' = Tail(chars)
                  /\ stdout' = stdout
                  /\ stderr' = Append(stderr,
                                  LexError(line, UnexpectedCharacter("@")))
                  /\ had_error'
            /\ (pc = "tokenize" /\ chars # <<>> /\ Head(chars) = "\""
                  /\ ~ClosesOnLine(Tail(chars))) =>
                  /\ stdout' = stdout
                  /\ had_error'
                  /\ chars' = <<>> \/ Head(chars') = "\n"
                  /\ chars' = SubSeq(chars, Len(Taken) + 1, Len(chars))
                  /\ Count("\n", Taken) = 0]_vars

\* tokenize reported an unterminated string on line 1 and still printed the
\* number on the line after it
C13_Witness ==
    /\ TokenizeDone
    /\ source = <<"\"", "\n", "7">>
    /\ returned = Some(TRUE)
    /\ StdoutKinds = <<"NUMBER", "EOF">>
    /\ stderr[1] = LexError(1, UnterminatedString)

\* the kinds and lexemes of the lines tokenize prints for a source
ScannerKindsAndLexemes(src) ==
    [i \in 1..Len(ScannerTokens(src)) |->
        [type |-> ScannerTokens(src)[i].type,
         lexeme |-> ScannerTokens(src)[i].lexeme]]

\* C14: the token sequence the parser consumes is the Scanner's token
\* sequence for the same source: the scan inside parse and tokenize produce
\* the same number of tokens with the same kinds and lexemes in the same
\* order, keyword classification and strings that reach a newline included.
C14_ParserConsumesScannerTokens ==
    (command = "parse" /\ pc # "scan_raw_tokens") =>
        KindsAndLexemes(raw_tokens) = ScannerKindsAndLexemes(source)

\* a Parser has been constructed over the converted tokens
ParserLive ==
    command = "parse" /\ pc \in {"primary", "return", "parsed", "done"}

\* C15: in every reachable parser state 0 <= current <= tokens.len() and the
\* cursor never decreases across a step; the token list is non-empty and its
\* last token is end-of-input, so peek_token is always defined, and with the
\* cursor at or beyond the last index peek_token returns the end-of-input
\* token.
C15_CursorInRange ==
    /\ [](ParserLive =>
            /\ parser.tokens # <<>>
            /\ parser.tokens[Len(parser.tokens)].token_type.tag = "Eof"
            /\ parser.current \in 0..Len(parser.tokens)
            /\ peek_token(parser).token_type.tag
                  \in {"LeftParen", "RightParen", "StringLit", "True",
                       "False", "Nil", "Number", "Eof"}
            /\ \A c \in (Len(parser.tokens) - 1)..(Len(parser.tokens) + 2) :
                  peek_token([parser EXCEPT !.current = c])
                     = parser.tokens[Len(parser.tokens)]
            /\ advance([parser EXCEPT !.current = Len(parser.tokens)]).current
                  = Len(parser.tokens))
    /\ [][(ParserLive /\ ParserLive') =>
            /\ parser'.tokens = parser.tokens
            /\ parser'.current >= parser.current
            /\ parser'.current <= parser.current + 1]_vars

\* the parser has consumed `( true )` and its cursor rests on the last
\* index, where peek_token yields end-of-input
C15_Witness ==
    /\ ParserLive
    /\ pc = "return"
    /\ Len(parser.tokens) = 4
    /\ parser.current = 3
    /\ peek_token(parser).token_type.tag = "Eof"
    /\ stack = <<>>

\* the token under the parser's cursor
CurrentToken == parser.tokens[parser.current + 1].token_type

\* C16: when primary reports `Expected expression` (the current token is
\* ')' or end-of-input) the cursor is left unchanged, the error flag is set
\* and the returned node is Literal(Nil); the success cases for true, false,
\* nil, NUMBER and STRING each advance the cursor by exactly one and leave
\* the error flag unchanged.
C16_PrimaryFrame ==
    [][(command = "parse" /\ pc = "primary") =>
         /\ CurrentToken.tag \in {"RightParen", "Eof"} =>
               /\ parser'.current = parser.current
               /\ parser'.had_error
               /\ expr' = Literal(Nil)
               /\ stderr' = Append(stderr, ParseError(ExpectedExpression))
               /\ pc' = "return"
         /\ CurrentToken.tag
               \in {"True", "False", "Nil", "Number", "StringLit"} =>
               /\ parser'.current = parser.current + 1
               /\ parser'.had_error = parser.had_error
               /\ stderr' = stderr
               /\ pc' = "return"
               /\ expr' = CASE CurrentToken.tag = "True" ->
                                  Literal(Boolean(TRUE))
                            [] CurrentToken.tag = "False" ->
                                  Literal(Boolean(FALSE))
                            [] CurrentToken.tag = "Nil" -> Literal(Nil)
                            [] CurrentToken.tag = "Number" ->
                                  Literal(Number(CurrentToken.value))
                            [] CurrentToken.tag = "StringLit" ->
                                  Literal(Str(CurrentToken.value))
         /\ parser'.tokens = parser.tokens
         /\ calls' = calls + 1]_vars

\* primary met ')' inside `(`: it reported `Expected expression`, returned
\* Literal(Nil) and left the cursor on the ')'
C16_Witness ==
    /\ command = "parse"
    /\ pc = "return"
    /\ source = <<"(", ")">>
    /\ stack = <<"LeftParen">>
    /\ expr = Literal(Nil)
    /\ parser.had_error
    /\ parser.current = 1
    /\ CurrentToken.tag = "RightParen"
    /\ stderr = <<ParseError(ExpectedExpression)>>

\* the number of '(' tokens in the parser's token list
LeftParens ==
    Cardinality({i \in 1..Len(parser.tokens) :
                    parser.tokens[i].token_type.tag = "LeftParen"})

\* what is left for the parser to do: tokens to consume first, then open
\* groups to close, then the steps that follow the outermost return
Remaining ==
    8 * (Len(parser.tokens) - parser.current) + 4 * Len(stack)
       + CASE pc = "primary" -> 3
           [] pc = "return" -> 2
           [] pc = "parsed" -> 1
           [] pc = "done" -> 0

\* C17: parsing terminates on every token sequence ending with
\* end-of-input, malformed ones included: every step of the parser lowers a
\* bounded measure and the parser is never stuck before parse returns; every
\* recursive call of expression is preceded by consuming a '(' token, so the
\* number of calls of primary is at most the number of '(' tokens plus one;
\* and parse always returns: an expression value has been built, the AST it
\* hands over is that value or nothing according to the error flag, and the
\* boolean it returns is the flag.
C17_ParsingTerminates ==
    /\ [](ParserLive =>
            /\ Remaining >= 0
            /\ pc # "done" => ENABLED Next
            /\ calls = ConsumedTokens("LeftParen")
                          + (IF pc = "primary" THEN 0 ELSE 1)
            /\ calls <= LeftParens + 1
            /\ pc \in {"return", "parsed", "done"} => expr # NoExpr
            /\ pc \in {"parsed", "done"} =>
                  ast = (IF parser.had_error THEN None ELSE Some(expr))
            /\ pc = "done" => returned = Some(parser.had_error))
    /\ [][ParserLive => Remaining' < Remaining]_vars

\* parse has returned for the malformed `(()`: three calls of primary for
\* two '(' tokens
C17_Witness ==
    /\ ParseDone
    /\ source = <<"(", "(", ")">>
    /\ LeftParens = 2
    /\ calls = 3
    /\ returned = Some(TRUE)
    /\ ast = None

\* the run of the parser over the tokens it has consumed, followed directly
\* by the end-of-input token
ConsumedAlone ==
    parser_loop(parser_start(
        Append(SubSeq(parser.tokens, 1, parser.current),
               parser.tokens[Len(parser.tokens)])))

\* C18: Parser::parse parses exactly one expression from the front of the
\* token sequence and never checks that the cursor has reached
\* end-of-input: the tokens after the ones it consumed change neither the
\* returned AST nor the error flag nor what parse prints and returns, so the
\* outcome is that of the consumed tokens alone, and `true)` parses
\* successfully as `true`.
C18_TrailingTokensIgnored ==
    /\ (ParserLive /\ pc \in {"parsed", "done"}) =>
          /\ expr = ConsumedAlone.expr
          /\ parser.had_error = ConsumedAlone.parser.had_error
          /\ stderr = ConsumedAlone.stderr
          /\ ast = (IF ConsumedAlone.parser.had_error THEN None
                    ELSE Some(ConsumedAlone.expr))
          /\ pc = "done" =>
                /\ returned = Some(ConsumedAlone.parser.had_error)
                /\ stdout = (IF ConsumedAlone.parser.had_error THEN <<>>
                             ELSE <<TextLine(print_ast(ConsumedAlone.expr))>>)
    /\ (ParseDone /\ source = <<"t", "r", "u", "e", ")">>) =>
          /\ returned = Some(FALSE)
          /\ stderr = <<>>
          /\ stdout = <<TextLine(<<"t", "r", "u", "e">>)>>
    /\ (ParseDone /\ source = <<"7", "(", "n", "i", "l">>) =>
          /\ returned = Some(FALSE)
          /\ stderr = <<>>
          /\ stdout = <<TextLine(<<"7", ".", "0">>)>>

\* parse succeeded on `true)` with the stray ')' and end-of-input still
\* ahead of the cursor
C18_Witness ==
    /\ ParseDone
    /\ source = <<"t", "r", "u", "e", ")">>
    /\ returned = Some(FALSE)
    /\ parser.current = 1
    /\ Len(parser.tokens) = 3
    /\ CurrentToken.tag = "RightParen"

====
